---- MODULE Spec2Model ----
(***************************************************************************)
(* Due-date feasibility simulator of the Scenario-3 repository.            *)
(*                                                                         *)
(*   src/main.py  simulate_request_core   (FastAPI call site)              *)
(*   src/app.py   simulate_request        (Streamlit call site)            *)
(*                                                                         *)
(* A pandas DataFrame is a sequence of rows (records); row order is part   *)
(* of the value.  Dates are day numbers.  Quantities are integers.         *)
(***************************************************************************)
EXTENDS Integers, Sequences, FiniteSets, TLC

(***************************************************************************)
(* Bounds of the model.                                                    *)
(***************************************************************************)
MaxRuns == 2        \* rows of the schedule table
MaxQty == 2         \* planned_qty_cases of one run: 1 or MaxQty
MaxCap == 2         \* daily_capacity_cases of one line: 1..MaxCap
MaxCapRows == 2     \* rows of the line_capability table
MaxBomRows == 2     \* rows of the bill_of_materials table
MaxInvRows == 2     \* rows of the inventory_materials table
MaxPerCase == 1     \* qty_per_case: 0..MaxPerCase
MaxOnHand == 2      \* on_hand_qty: 0..MaxOnHand, or NULL
MaxRequest == 3     \* requested quantity: 0..MaxRequest

LineIds == {1, 2}
ProductIds == {1, 2}
MaterialIds == {1, 2}
Dates == {1, 2}

Max(a, b) == IF a >= b THEN a ELSE b
Min(a, b) == IF a <= b THEN a ELSE b

SeqsUpTo(S, n) == UNION {[1..k -> S] : k \in 0..n}

(***************************************************************************)
(* Values of the Python runtime.                                           *)
(***************************************************************************)
\* str(x): the text of x, a value distinct from x itself
Str(x) == [str |-> x]
\* SQL NULL / NaN in a nullable column, and a present value
Null == <<>>
Some(v) == <<v>>
NotNull(x) == x # Null

\* pd.to_datetime(s).date(): the date a well-formed string denotes; a string
\* that denotes no date raises
NotADate == [text |-> "not-a-date"]
DateStrings == {Str(d) : d \in Dates} \cup {NotADate}
Parses(s) == s \in {Str(d) : d \in Dates}
ToDate(s) == s.str

(***************************************************************************)
(* pandas operations the two functions use.                                *)
(***************************************************************************)
\* Series.sum()
RECURSIVE SeriesSum(_)
SeriesSum(s) == IF s = <<>> THEN 0 ELSE Head(s) + SeriesSum(Tail(s))

PlannedQty(df) == [i \in 1..Len(df) |-> df[i].planned_qty_cases]

\* Series.unique(): the distinct values, in order of first appearance
RECURSIVE Unique(_)
Unique(s) ==
    IF s = <<>> THEN <<>>
    ELSE LET u == Unique(SubSeq(s, 1, Len(s) - 1))
             x == s[Len(s)]
         IN  IF \E i \in 1..Len(u) : u[i] = x THEN u ELSE Append(u, x)

\* sorted(iterable) of a set of integers
RECURSIVE SortedSeq(_)
SortedSeq(S) ==
    IF S = {} THEN <<>>
    ELSE LET m == CHOOSE x \in S : \A y \in S : x <= y
         IN  <<m>> \o SortedSeq(S \ {m})

\* the sort key of DataFrame.sort_values(["prod_date_only", "line_id"])
KeyLeq(a, b) ==
    \/ a.production_date < b.production_date
    \/ a.production_date = b.production_date /\ a.line_id <= b.line_id

RECURSIVE InsertRow(_, _)
InsertRow(sorted, r) ==
    IF sorted = <<>> THEN <<r>>
    ELSE IF KeyLeq(Head(sorted), r)
         THEN <<Head(sorted)>> \o InsertRow(Tail(sorted), r)
         ELSE <<r>> \o sorted

\* DataFrame.sort_values on several columns: rows with equal keys keep their order
RECURSIVE SortValues(_)
SortValues(df) ==
    IF df = <<>> THEN <<>>
    ELSE InsertRow(SortValues(SubSeq(df, 1, Len(df) - 1)), df[Len(df)])

\* the rows pd.merge(left, inventory, on="material_id", how="left") makes of one
\* left row: one per matching inventory row, in inventory order, or one row
\* with a null on_hand_qty when none matches
MergeRow(l, inv_df) ==
    LET m == SelectSeq(inv_df, LAMBDA v : v.material_id = l.material_id)
    IN  IF m = <<>>
        THEN <<[material_id |-> l.material_id, needed_qty |-> l.needed_qty,
                on_hand_qty |-> Null]>>
        ELSE [i \in 1..Len(m) |->
                [material_id |-> l.material_id, needed_qty |-> l.needed_qty,
                 on_hand_qty |-> m[i].on_hand_qty]]

RECURSIVE MergeLeft(_, _)
MergeLeft(left, inv_df) ==
    IF left = <<>> THEN <<>>
    ELSE MergeRow(Head(left), inv_df) \o MergeLeft(Tail(left), inv_df)

(***************************************************************************)
(* src/main.py: simulate_request_core.                                     *)
(***************************************************************************)
\* the due date itself left out of the window
SchedWindowBeforeDue(schedule_df, due_date_obj) ==
    SelectSeq(schedule_df, LAMBDA r : r.production_date < due_date_obj)

\* sched_window: anything scheduled on or before the due date
SchedWindow(schedule_df, due_date_obj) ==
    SelectSeq(schedule_df, LAMBDA r : r.production_date <= due_date_obj)

\* the runs of every product taken
SkuSchedAnyProduct(sched_window, product_id) == sched_window

SkuSched(sched_window, product_id) ==
    SelectSeq(sched_window, LAMBDA r : r.product_id = product_id)

AlreadyPlannedCases(sku_sched) ==
    IF Len(sku_sched) > 0 THEN SeriesSum(PlannedQty(sku_sched)) ELSE 0

CoveringRows(sku_sched) ==
    IF Len(sku_sched) > 0
    THEN LET sku_sched_sorted == SortValues(sku_sched)
         IN  [i \in 1..Len(sku_sched_sorted) |->
                [line_id |-> Str(sku_sched_sorted[i].line_id),
                 production_date |-> Str(sku_sched_sorted[i].production_date),
                 allocated_cases |-> sku_sched_sorted[i].planned_qty_cases,
                 source |-> "already_planned"]]
    ELSE <<>>

\* > for >=
AlreadyCoveredStrict(already_planned_cases, requested_qty_cases) ==
    already_planned_cases > requested_qty_cases

\* CASE A test
AlreadyCovered(already_planned_cases, requested_qty_cases) ==
    already_planned_cases >= requested_qty_cases

\* the product filter forgotten
CapableLinesAnyProduct(cap_df, product_id) ==
    Unique([i \in 1..Len(cap_df) |-> cap_df[i].line_id])

CapableLines(cap_df, product_id) ==
    LET rows == SelectSeq(cap_df, LAMBDA c : c.product_id = product_id)
    IN  Unique([i \in 1..Len(rows) |-> rows[i].line_id])

\* the first day of the window only
WindowDatesEarliestOnly(sched_window) ==
    LET all == SortedSeq({sched_window[i].production_date : i \in 1..Len(sched_window)})
    IN  IF all = <<>> THEN <<>> ELSE <<all[1]>>

WindowDates(sched_window) ==
    SortedSeq({sched_window[i].production_date : i \in 1..Len(sched_window)})

TotalPlannedNow(sched_window, line_id, this_date) ==
    LET todays_runs == SelectSeq(sched_window,
            LAMBDA r : r.line_id = line_id /\ r.production_date = this_date)
    IN  IF Len(todays_runs) > 0 THEN SeriesSum(PlannedQty(todays_runs)) ELSE 0

\* what is already planned on the line that day left out
HeadroomOfEmptyLine(daily_capacity, total_planned_now) == daily_capacity

Headroom(daily_capacity, total_planned_now) ==
    Max(daily_capacity - total_planned_now, 0)

\* the inner loop, from index i of capable_lines on; st holds
\* remaining_capacity_allocation and extra_plan_rows
RECURSIVE LineLoop(_, _, _, _, _, _)
LineLoop(capable_lines, i, this_date, lines_df, sched_window, st) ==
    IF i > Len(capable_lines) \/ st.remaining_capacity_allocation <= 0 THEN st
    ELSE
      LET line_id == capable_lines[i]
          line_info == SelectSeq(lines_df, LAMBDA l : l.line_id = line_id)
      IN  IF line_info = <<>>
          THEN LineLoop(capable_lines, i + 1, this_date, lines_df, sched_window, st)
          ELSE
            LET daily_capacity == line_info[1].daily_capacity_cases
                headroom == Headroom(daily_capacity,
                                     TotalPlannedNow(sched_window, line_id, this_date))
                allocate_now == Min(headroom, st.remaining_capacity_allocation)
            IN  IF headroom <= 0
                THEN LineLoop(capable_lines, i + 1, this_date, lines_df, sched_window, st)
                ELSE LineLoop(capable_lines, i + 1, this_date, lines_df, sched_window,
                        [remaining_capacity_allocation |->
                            st.remaining_capacity_allocation - allocate_now,
                         extra_plan_rows |-> Append(st.extra_plan_rows,
                            [line_id |-> Str(line_id),
                             production_date |-> Str(this_date),
                             allocated_cases |-> allocate_now,
                             source |-> "new_plan"])])

\* the outer loop, from index j of the sorted window dates on
RECURSIVE DateLoop(_, _, _, _, _, _)
DateLoop(dates, j, capable_lines, lines_df, sched_window, st) ==
    IF j > Len(dates) \/ st.remaining_capacity_allocation <= 0 THEN st
    ELSE DateLoop(dates, j + 1, capable_lines, lines_df, sched_window,
                  LineLoop(capable_lines, 1, dates[j], lines_df, sched_window, st))

\* what capacity covers left out
CapacityShortfallOfRequest(requested_qty_cases, total_possible_capacity) ==
    Max(requested_qty_cases, 0)

CapacityShortfall(requested_qty_cases, total_possible_capacity) ==
    Max(requested_qty_cases - total_possible_capacity, 0)

\* the comparison the other way round
ShortageFlipped(need, have) == need < have

\* need > have
Shortage(need, have) == need > have

\* a missing on-hand value read as enough
OnHandMissingIsPlenty(r) ==
    IF NotNull(r.on_hand_qty) THEN r.on_hand_qty[1] ELSE r.needed_qty

OnHand(r) == IF NotNull(r.on_hand_qty) THEN r.on_hand_qty[1] ELSE 0

ShortageNotes(merged) ==
    LET short == SelectSeq(merged, LAMBDA r : Shortage(r.needed_qty, OnHand(r)))
    IN  [i \in 1..Len(short) |->
            [text |-> "short by", material |-> short[i].material_id,
             shortage |-> short[i].needed_qty - OnHand(short[i])]]

\* a product without BOM lines passes as needing no material
MatBlockersNoBomPasses(bom, inventory, product_id, new_capacity_cases) ==
    IF new_capacity_cases > 0
    THEN LET sku_bom == SelectSeq(bom, LAMBDA b : b.product_id = product_id)
             needed == [i \in 1..Len(sku_bom) |->
                          [material_id |-> sku_bom[i].material_id,
                           needed_qty |-> sku_bom[i].qty_per_case * new_capacity_cases]]
         IN  ShortageNotes(MergeLeft(needed, inventory))
    ELSE <<>>

\* material check for the extra part only
MatBlockers(bom, inventory, product_id, new_capacity_cases) ==
    IF new_capacity_cases > 0
    THEN LET sku_bom == SelectSeq(bom, LAMBDA b : b.product_id = product_id)
         IN  IF Len(sku_bom) > 0
             THEN LET needed == [i \in 1..Len(sku_bom) |->
                                   [material_id |-> sku_bom[i].material_id,
                                    needed_qty |-> sku_bom[i].qty_per_case * new_capacity_cases]]
                  IN  ShortageNotes(MergeLeft(needed, inventory))
             ELSE <<[text |-> "No BOM defined for this SKU"]>>
    ELSE <<>>

\* the material blockers forgotten
IsFullCapacityOnly(capacity_shortfall, mat_blockers) == capacity_shortfall = 0

\* "If capacity and materials are fine -> full"
IsFull(capacity_shortfall, mat_blockers) ==
    capacity_shortfall = 0 /\ Len(mat_blockers) = 0

\* the new cases kept although materials block
FeasibleNewCasesKept(new_capacity_cases, mat_blockers) == new_capacity_cases

\* if materials block, the extra cannot be confirmed
FeasibleNewCases(new_capacity_cases, mat_blockers) ==
    IF Len(mat_blockers) > 0 THEN 0 ELSE new_capacity_cases

\* the subtraction the other way round
RemainingSwapped(requested_qty_cases, total_feasible) ==
    Max(total_feasible - requested_qty_cases, 0)

RemainingAfterFeasible(requested_qty_cases, total_feasible) ==
    Max(requested_qty_cases - total_feasible, 0)

\* a note written whatever the shortfall
CapNotesAlways(capacity_shortfall, due_date_obj) ==
    <<[text |-> "Short cases before", cases |-> capacity_shortfall,
       before |-> due_date_obj]>>

CapNotes(capacity_shortfall, due_date_obj) ==
    IF capacity_shortfall > 0
    THEN <<[text |-> "Short cases before", cases |-> capacity_shortfall,
            before |-> due_date_obj]>>
    ELSE <<>>

\* the new rows shown although not feasible
PartialRowsWithNew(covering_rows, extra_plan_rows, feasible_new_cases, mat_blockers) ==
    covering_rows \o extra_plan_rows

PartialRows(covering_rows, extra_plan_rows, feasible_new_cases, mat_blockers) ==
    IF feasible_new_cases > 0 /\ Len(mat_blockers) = 0
    THEN covering_rows \o extra_plan_rows
    ELSE covering_rows

\* partial whatever is feasible
StatusValAlwaysPartial(total_feasible) == "partial"

StatusVal(total_feasible) == IF total_feasible > 0 THEN "partial" ELSE "no"

ProductName(products_df, product_id) ==
    LET row_match == SelectSeq(products_df, LAMBDA p : p.product_id = product_id)
    IN  IF row_match # <<>> THEN row_match[1].product_name ELSE product_id

\* What a call leaves: the exception it raised (or "none"), the dict it returned
\* (or Null), and the values of its locals at the return.
Raise(exc) == [raised |-> exc, ret |-> Null, frame |-> [branch |-> "raise"]]
Return(dict, locals) == [raised |-> "none", ret |-> dict, frame |-> locals]

simulate_request_core(product_id, requested_qty_cases, requested_due_date, data) ==
    IF ~Parses(requested_due_date) THEN Raise("ValueError")
    ELSE
    LET due_date_obj == ToDate(requested_due_date)
        product_name == ProductName(data.products, product_id)
        sched_window == SchedWindow(data.schedule, due_date_obj)
        sku_sched == SkuSched(sched_window, product_id)
        already_planned_cases == AlreadyPlannedCases(sku_sched)
        covering_rows == CoveringRows(sku_sched)
        need_after_plan == requested_qty_cases - already_planned_cases
        capable_lines == CapableLines(data.capability, product_id)
        loop == DateLoop(WindowDates(sched_window), 1, capable_lines, data.lines,
                         sched_window,
                         [remaining_capacity_allocation |-> need_after_plan,
                          extra_plan_rows |-> <<>>])
        extra_plan_rows == loop.extra_plan_rows
        new_capacity_cases == need_after_plan - loop.remaining_capacity_allocation
        total_possible_capacity == already_planned_cases + new_capacity_cases
        capacity_shortfall == CapacityShortfall(requested_qty_cases, total_possible_capacity)
        mat_blockers == MatBlockers(data.bom, data.inventory, product_id, new_capacity_cases)
        feasible_new_cases == FeasibleNewCases(new_capacity_cases, mat_blockers)
        total_feasible == already_planned_cases + feasible_new_cases
        remaining_after_feasible == RemainingAfterFeasible(requested_qty_cases, total_feasible)
        head == [sku |-> product_id, product_name |-> product_name,
                 requested_date |-> Str(due_date_obj),
                 requested_qty |-> requested_qty_cases]
        early == [already_planned_cases |-> already_planned_cases,
                  covering_rows |-> covering_rows]
        late == [already_planned_cases |-> already_planned_cases,
                 covering_rows |-> covering_rows,
                 need_after_plan |-> need_after_plan,
                 capable_lines |-> capable_lines,
                 extra_plan_rows |-> extra_plan_rows,
                 new_capacity_cases |-> new_capacity_cases,
                 capacity_shortfall |-> capacity_shortfall,
                 mat_blockers |-> mat_blockers]
    IN  IF AlreadyCovered(already_planned_cases, requested_qty_cases)
        THEN Return(head @@
                [status |-> "full",
                 covered_qty_on_requested_date |-> requested_qty_cases,
                 remaining_qty |-> 0,
                 next_available_date |-> Some(Str(due_date_obj)),
                 next_available_additional_qty |-> requested_qty_cases,
                 existing_orders_used |-> covering_rows,
                 capacity_notes |-> <<>>,
                 material_notes |-> <<>>],
                early @@ [branch |-> "covered"])
        ELSE IF capable_lines = <<>>
        THEN Return(head @@
                [status |-> "no",
                 covered_qty_on_requested_date |-> already_planned_cases,
                 remaining_qty |-> need_after_plan,
                 next_available_date |-> Null,
                 next_available_additional_qty |-> already_planned_cases,
                 existing_orders_used |-> covering_rows,
                 capacity_notes |-> <<[text |-> "No capable line for this SKU"]>>,
                 material_notes |-> <<>>],
                early @@ [branch |-> "no_capable_line",
                          need_after_plan |-> need_after_plan,
                          capable_lines |-> capable_lines])
        ELSE IF IsFull(capacity_shortfall, mat_blockers)
        THEN Return(head @@
                [status |-> "full",
                 covered_qty_on_requested_date |-> requested_qty_cases,
                 remaining_qty |-> 0,
                 next_available_date |-> Some(Str(due_date_obj)),
                 next_available_additional_qty |-> requested_qty_cases,
                 existing_orders_used |-> covering_rows \o extra_plan_rows,
                 capacity_notes |-> <<>>,
                 material_notes |-> <<>>],
                late @@ [branch |-> "full_new_plan"])
        ELSE Return(head @@
                [status |-> StatusVal(total_feasible),
                 covered_qty_on_requested_date |-> total_feasible,
                 remaining_qty |-> remaining_after_feasible,
                 next_available_date |-> Some(Str(due_date_obj)),
                 next_available_additional_qty |-> total_feasible,
                 existing_orders_used |->
                    PartialRows(covering_rows, extra_plan_rows, feasible_new_cases,
                                mat_blockers),
                 capacity_notes |-> CapNotes(capacity_shortfall, due_date_obj),
                 material_notes |-> mat_blockers],
                late @@ [branch |-> "partial",
                         feasible_new_cases |-> feasible_new_cases,
                         total_feasible |-> total_feasible])

(***************************************************************************)
(* src/app.py: simulate_request, the dashboard's copy of the same steps.   *)
(* Its plan rows keep line_id and the date as they are (no str()).         *)
(***************************************************************************)
RECURSIVE AppLineLoop(_, _, _, _, _, _)
AppLineLoop(capable_lines, i, this_date, lines_df, sched_window, st) ==
    IF i > Len(capable_lines) \/ st.remaining_capacity_allocation <= 0 THEN st
    ELSE
      LET line_id == capable_lines[i]
          line_info == SelectSeq(lines_df, LAMBDA l : l.line_id = line_id)
      IN  IF line_info = <<>>
          THEN AppLineLoop(capable_lines, i + 1, this_date, lines_df, sched_window, st)
          ELSE
            LET daily_capacity == line_info[1].daily_capacity_cases
                todays_runs == SelectSeq(sched_window,
                    LAMBDA r : r.line_id = line_id /\ r.production_date = this_date)
                total_planned_now ==
                    IF Len(todays_runs) > 0 THEN SeriesSum(PlannedQty(todays_runs)) ELSE 0
                headroom == Max(daily_capacity - total_planned_now, 0)
                allocate_now == Min(headroom, st.remaining_capacity_allocation)
            IN  IF headroom <= 0
                THEN AppLineLoop(capable_lines, i + 1, this_date, lines_df, sched_window, st)
                ELSE AppLineLoop(capable_lines, i + 1, this_date, lines_df, sched_window,
                        [remaining_capacity_allocation |->
                            st.remaining_capacity_allocation - allocate_now,
                         extra_plan_rows |-> Append(st.extra_plan_rows,
                            [line_id |-> line_id,
                             production_date |-> this_date,
                             allocated_cases |-> allocate_now,
                             source |-> "new_plan"])])

RECURSIVE AppDateLoop(_, _, _, _, _, _)
AppDateLoop(dates, j, capable_lines, lines_df, sched_window, st) ==
    IF j > Len(dates) \/ st.remaining_capacity_allocation <= 0 THEN st
    ELSE AppDateLoop(dates, j + 1, capable_lines, lines_df, sched_window,
                     AppLineLoop(capable_lines, 1, dates[j], lines_df, sched_window, st))

\* STEP 3: material check for only the new part
AppMatBlockers(bom_df, inv_df, product_id, new_capacity_cases) ==
    IF new_capacity_cases > 0
    THEN LET sku_bom == SelectSeq(bom_df, LAMBDA b : b.product_id = product_id)
             needed == [i \in 1..Len(sku_bom) |->
                          [material_id |-> sku_bom[i].material_id,
                           needed_qty |-> sku_bom[i].qty_per_case * new_capacity_cases]]
             merged == MergeLeft(needed, inv_df)
             have(r) == IF NotNull(r.on_hand_qty) THEN r.on_hand_qty[1] ELSE 0
             short == SelectSeq(merged, LAMBDA r : r.needed_qty > have(r))
         IN  IF Len(sku_bom) > 0
             THEN [i \in 1..Len(short) |->
                     [text |-> "short by", material |-> short[i].material_id,
                      shortage |-> short[i].needed_qty - have(short[i])]]
             ELSE <<[text |-> "No BOM for this SKU."]>>
    ELSE <<>>

simulate_request(product_id, extra_cases, due_date_str, data) ==
    IF ~Parses(due_date_str) THEN Raise("ValueError")
    ELSE
    LET due_date_obj == ToDate(due_date_str)
        sched_window == SelectSeq(data.schedule,
                            LAMBDA r : r.production_date <= due_date_obj)
        sku_sched == SelectSeq(sched_window, LAMBDA r : r.product_id = product_id)
        already_planned_cases ==
            IF Len(sku_sched) > 0 THEN SeriesSum(PlannedQty(sku_sched)) ELSE 0
        sku_sched_sorted == SortValues(sku_sched)
        covering_rows ==
            IF Len(sku_sched) > 0
            THEN [i \in 1..Len(sku_sched_sorted) |->
                    [line_id |-> sku_sched_sorted[i].line_id,
                     production_date |-> sku_sched_sorted[i].production_date,
                     allocated_cases |-> sku_sched_sorted[i].planned_qty_cases,
                     source |-> "already_planned"]]
            ELSE <<>>
        need_after_plan == extra_cases - already_planned_cases
        cap_rows == SelectSeq(data.capability, LAMBDA c : c.product_id = product_id)
        capable_lines == Unique([i \in 1..Len(cap_rows) |-> cap_rows[i].line_id])
        dates == SortedSeq({sched_window[i].production_date : i \in 1..Len(sched_window)})
        loop == AppDateLoop(dates, 1, capable_lines, data.lines, sched_window,
                            [remaining_capacity_allocation |-> need_after_plan,
                             extra_plan_rows |-> <<>>])
        extra_plan_rows == loop.extra_plan_rows
        new_capacity_cases == need_after_plan - loop.remaining_capacity_allocation
        total_possible_capacity == already_planned_cases + new_capacity_cases
        capacity_shortfall == Max(extra_cases - total_possible_capacity, 0)
        mat_blockers == AppMatBlockers(data.bom, data.inventory, product_id,
                                       new_capacity_cases)
        feasible_new_cases == IF Len(mat_blockers) > 0 THEN 0 ELSE new_capacity_cases
        total_feasible == already_planned_cases + feasible_new_cases
        remaining_after_feasible == Max(extra_cases - total_feasible, 0)
        cap_blockers ==
            IF capacity_shortfall > 0
            THEN <<[text |-> "Short cases before", cases |-> capacity_shortfall,
                    before |-> due_date_obj]>>
            ELSE <<>>
        partial_plan_rows ==
            IF feasible_new_cases > 0 /\ Len(mat_blockers) = 0
            THEN covering_rows \o extra_plan_rows
            ELSE covering_rows
        early == [already_planned_cases |-> already_planned_cases,
                  covering_rows |-> covering_rows]
        late == [already_planned_cases |-> already_planned_cases,
                 covering_rows |-> covering_rows,
                 need_after_plan |-> need_after_plan,
                 capable_lines |-> capable_lines,
                 extra_plan_rows |-> extra_plan_rows,
                 new_capacity_cases |-> new_capacity_cases,
                 capacity_shortfall |-> capacity_shortfall,
                 mat_blockers |-> mat_blockers]
    IN  IF already_planned_cases >= extra_cases
        THEN Return([can_fulfill |-> TRUE,
                     allocated_total |-> extra_cases,
                     remaining |-> 0,
                     plan_rows |-> covering_rows,
                     material_blockers |-> <<>>,
                     capacity_blockers |-> <<>>],
                    early @@ [branch |-> "covered"])
        ELSE IF capable_lines = <<>>
        THEN Return([can_fulfill |-> FALSE,
                     allocated_total |-> already_planned_cases,
                     remaining |-> need_after_plan,
                     plan_rows |-> covering_rows,
                     material_blockers |-> <<[text |-> "No line can run this product"]>>,
                     capacity_blockers |-> <<[text |-> "No capable line found"]>>],
                    early @@ [branch |-> "no_capable_line",
                              need_after_plan |-> need_after_plan,
                              capable_lines |-> capable_lines])
        ELSE IF capacity_shortfall = 0 /\ Len(mat_blockers) = 0
        THEN Return([can_fulfill |-> TRUE,
                     allocated_total |-> extra_cases,
                     remaining |-> 0,
                     plan_rows |-> covering_rows \o extra_plan_rows,
                     material_blockers |-> <<>>,
                     capacity_blockers |-> <<>>],
                    late @@ [branch |-> "full_new_plan"])
        ELSE Return([can_fulfill |-> FALSE,
                     allocated_total |-> total_feasible,
                     remaining |-> remaining_after_feasible,
                     plan_rows |-> partial_plan_rows,
                     material_blockers |-> mat_blockers,
                     capacity_blockers |-> cap_blockers],
                    late @@ [branch |-> "partial",
                             feasible_new_cases |-> feasible_new_cases,
                             total_feasible |-> total_feasible])

(***************************************************************************)
(* What a call writes.  Both functions assign columns to DataFrames they   *)
(* hold in locals; a frame is named by where it lives: a table of the      *)
(* snapshot dict, a copy, or a selection of rows (boolean indexing builds  *)
(* a new frame).  A column assignment changes the snapshot only when the   *)
(* frame written is the snapshot's own table.                              *)
(***************************************************************************)
\* data["schedule"], data["bom"], ...
SnapshotFrame(table) == <<"data", table>>

\* no copy taken: the local names the frame itself
CopyShared(df) == df

\* df.copy(): a new frame holding the same rows
Copy(df) == <<"copy", df[2]>>

\* df[mask]: a new frame holding the selected rows
Selection(df) == <<"selection", df[2]>>

\* pd.to_datetime of a date: the Timestamp of its midnight; .dt.date of that
Timestamp(d) == [date |-> d, time |-> "00:00:00"]
DtDate(ts) == ts.date

\* a column assignment to frame df changes the snapshot when df is one of
\* its tables: the snapshot with the rows of that table rewritten
Assigned(d, df, rows) ==
    IF df[1] = "data" THEN [d EXCEPT ![df[2]] = rows] ELSE d

\* df["production_date"] = pd.to_datetime(df["production_date"])
SetProductionDate(d, df) ==
    IF df[1] = "data"
    THEN Assigned(d, df, [i \in 1..Len(d[df[2]]) |->
            [d[df[2]][i] EXCEPT !.production_date = Timestamp(@)]])
    ELSE d

\* df["prod_date_only"] = df["production_date"].dt.date
SetProdDateOnly(d, df) ==
    IF df[1] = "data"
    THEN Assigned(d, df, [i \in 1..Len(d[df[2]]) |->
            d[df[2]][i] @@ [prod_date_only |-> DtDate(d[df[2]][i].production_date)]])
    ELSE d

\* df["needed_qty"] = df["qty_per_case"] * new_capacity_cases
SetNeededQty(d, df, new_capacity_cases) ==
    IF df[1] = "data"
    THEN Assigned(d, df, [i \in 1..Len(d[df[2]]) |->
            d[df[2]][i] @@ [needed_qty |->
                               d[df[2]][i].qty_per_case * new_capacity_cases]])
    ELSE d

\* the snapshot after the column assignments of one call of
\* simulate_request_core that ended as out
CoreSnapshotAfter(d, out) ==
    IF out.raised # "none" THEN d
    ELSE
    LET schedule_df == Copy(SnapshotFrame("schedule"))
        d1 == SetProductionDate(d, schedule_df)
        d2 == SetProdDateOnly(d1, schedule_df)
        sku_bom == Copy(Selection(SnapshotFrame("bom")))
    IN  IF /\ out.frame.branch \in {"full_new_plan", "partial"}
           /\ out.frame.new_capacity_cases > 0
           /\ out.frame.mat_blockers # <<[text |-> "No BOM defined for this SKU"]>>
        THEN SetNeededQty(d2, sku_bom, out.frame.new_capacity_cases)
        ELSE d2

\* the same for one call of the dashboard's simulate_request
AppSnapshotAfter(d, out) ==
    IF out.raised # "none" THEN d
    ELSE
    LET schedule_df == Copy(SnapshotFrame("schedule"))
        d1 == SetProductionDate(d, schedule_df)
        d2 == SetProdDateOnly(d1, schedule_df)
        bom_df == Copy(SnapshotFrame("bom"))
        sku_bom == Copy(Selection(bom_df))
    IN  IF /\ out.frame.branch \in {"full_new_plan", "partial"}
           /\ out.frame.new_capacity_cases > 0
           /\ out.frame.mat_blockers # <<[text |-> "No BOM for this SKU."]>>
        THEN SetNeededQty(d2, sku_bom, out.frame.new_capacity_cases)
        ELSE d2

(***************************************************************************)
(* The snapshots and requests the model draws.                             *)
(*                                                                         *)
(* Every quantity is non-negative.  line_id identifies a row of the lines  *)
(* table; the other tables are arbitrary row sequences (duplicates, any    *)
(* order), as SELECT without ORDER BY returns them.  Columns neither       *)
(* function reads for its result (line_name, rate_cases_per_hour,          *)
(* material_name, supplier_lead_time_days) are left out; is_firm, which    *)
(* neither reads, is kept.  Each initial state varies one or two tables    *)
(* over all their bounded values and takes the others from a few fixed     *)
(* tables.                                                                 *)
(***************************************************************************)
Run(l, d, p, q, f) ==
    [line_id |-> l, production_date |-> d, product_id |-> p,
     planned_qty_cases |-> q, is_firm |-> f]
Line(l, c) == [line_id |-> l, daily_capacity_cases |-> c]
Capability(l, p) == [line_id |-> l, product_id |-> p]
Bom(p, m, q) == [product_id |-> p, material_id |-> m, qty_per_case |-> q]
Inventory(m, h) == [material_id |-> m, on_hand_qty |-> h]
Product(p) == [product_id |-> p, product_name |-> [name |-> p]]

\* a run is of one case or of MaxQty cases
RunQtys == {1, MaxQty}
RunRows == {Run(l, d, p, q, TRUE) :
                l \in LineIds, d \in Dates, p \in ProductIds, q \in RunQtys}
\* runs of one line and day, firm and not
FirmRows == {Run(1, 1, p, q, f) : p \in ProductIds, q \in RunQtys, f \in BOOLEAN}
LineRows == {Line(l, c) : l \in LineIds, c \in 1..MaxCap}
LineTables == {t \in SeqsUpTo(LineRows, Cardinality(LineIds)) :
                  \A i, j \in 1..Len(t) : i # j => t[i].line_id # t[j].line_id}
CapabilityRows == {Capability(l, p) : l \in LineIds, p \in ProductIds}
BomRows == {Bom(p, m, q) : p \in ProductIds, m \in MaterialIds, q \in 0..MaxPerCase}
InventoryRows == {Inventory(m, h) : m \in MaterialIds,
                                    h \in {Null} \cup {Some(v) : v \in 0..MaxOnHand}}

StdLines == <<Line(1, MaxCap), Line(2, 1)>>
StdCapability == <<Capability(1, 1), Capability(2, 1)>>
StdBom == <<Bom(1, 1, 1)>>
StdInventory == <<Inventory(1, Some(MaxOnHand))>>
StdProducts == <<Product(1), Product(2)>>
ScheduleMenu == {<<Run(1, 1, 2, 1, TRUE)>>,
                 <<Run(2, 1, 1, 1, FALSE), Run(1, 2, 2, 1, TRUE)>>}
InventoryMenu == {<<>>, <<Inventory(1, Null)>>,
                  <<Inventory(1, Some(MaxOnHand)), Inventory(2, Some(0))>>}
BomMenu == {StdBom, <<Bom(1, 1, 1), Bom(1, 2, 1)>>}

Snapshot(s, l, c, b, v, p) ==
    [schedule |-> s, lines |-> l, capability |-> c, bom |-> b, inventory |-> v,
     products |-> p]

\* the schedule varies (runs of every line, day and product; firm and
\* non-firm runs of one line and day), under both row orders of the capability table
ScheduleSnapshot(d) ==
    \E s \in SeqsUpTo(RunRows, MaxRuns) \cup SeqsUpTo(FirmRows, MaxRuns),
       c \in {StdCapability, <<Capability(2, 1), Capability(1, 1)>>} :
        d = Snapshot(s, StdLines, c, StdBom, StdInventory, StdProducts)

\* the lines and capability tables vary
LinesSnapshot(d) ==
    \E s \in ScheduleMenu, l \in LineTables,
       c \in SeqsUpTo(CapabilityRows, MaxCapRows) :
        d = Snapshot(s, l, c, StdBom, StdInventory, <<>>)

\* the bill of materials varies
BomSnapshot(d) ==
    \E s \in ScheduleMenu, b \in SeqsUpTo(BomRows, MaxBomRows), v \in InventoryMenu :
        d = Snapshot(s, StdLines, StdCapability, b, v, StdProducts)

\* the inventory varies
InventorySnapshot(d) ==
    \E s \in ScheduleMenu, b \in BomMenu, v \in SeqsUpTo(InventoryRows, MaxInvRows) :
        d = Snapshot(s, StdLines, StdCapability, b, v, StdProducts)

\* the requested product is product 1; product 2 stands for every other product
RequestedProducts == {1}
Requests ==
    {[product_id |-> p, qty |-> q, due |-> Str(d)] :
        p \in RequestedProducts, q \in 0..MaxRequest, d \in Dates}
    \cup {[product_id |-> p, qty |-> 1, due |-> NotADate] : p \in RequestedProducts}

(***************************************************************************)
(* The state machine: a snapshot, and calls of the two functions on it.    *)
(***************************************************************************)
VARIABLES
    data,       \* the snapshot dict passed to the call
    pc,         \* "idle" | "returned"
    call,       \* the function called and its arguments
    raised,     \* the exception the call raised, "none" if it returned
    result,     \* the dict the call returned, Null if none
    frame       \* the call's locals at its return

vars == <<data, pc, call, raised, result, frame>>

NoCall == [fn |-> "none"]

Init ==
    /\ \/ ScheduleSnapshot(data)
       \/ LinesSnapshot(data)
       \/ BomSnapshot(data)
       \/ InventorySnapshot(data)
    /\ pc = "idle"
    /\ call = NoCall
    /\ raised = "none"
    /\ result = Null
    /\ frame = [branch |-> "none"]

Finish(fn, r, out, after) ==
    /\ pc' = "returned"
    /\ call' = [fn |-> fn, product_id |-> r.product_id,
                requested_qty_cases |-> r.qty, due_date |-> r.due]
    /\ raised' = out.raised
    /\ result' = out.ret
    /\ frame' = out.frame
    /\ data' = after

\* main.py: POST /simulate_request
ApiSimulate ==
    /\ pc = "idle"
    /\ \E r \in Requests :
         LET out == simulate_request_core(r.product_id, r.qty, r.due, data)
         IN  Finish("simulate_request_core", r, out, CoreSnapshotAfter(data, out))

\* app.py: the dashboard's "Simulate" button; its widgets hand over a quantity
\* of at least their minimum, which is positive, and the text of a date
DashboardRequests == {r \in Requests : r.qty > 0 /\ Parses(r.due)}

DashboardSimulate ==
    /\ pc = "idle"
    /\ \E r \in DashboardRequests :
         LET out == simulate_request(r.product_id, r.qty, r.due, data)
         IN  Finish("simulate_request", r, out, AppSnapshotAfter(data, out))

\* the caller has consumed the result
NextRequest ==
    /\ pc = "returned"
    /\ pc' = "idle"
    /\ call' = NoCall
    /\ raised' = "none"
    /\ result' = Null
    /\ frame' = [branch |-> "none"]
    /\ UNCHANGED data

Next == ApiSimulate \/ DashboardSimulate \/ NextRequest

Spec == Init /\ [][Next]_vars

Returned == pc = "returned" /\ raised = "none"
IsCore == call.fn = "simulate_request_core"
IsApp == call.fn = "simulate_request"

(***************************************************************************)
(* Vocabulary of the properties: the fields the two result dicts share,    *)
(* and quantities of the snapshot stated without the functions' steps.     *)
(***************************************************************************)
Requested == call.requested_qty_cases
Allocated == IF IsCore THEN result.covered_qty_on_requested_date ELSE result.allocated_total
Remaining == IF IsCore THEN result.remaining_qty ELSE result.remaining
PlanRows == IF IsCore THEN result.existing_orders_used ELSE result.plan_rows
CapacityBlockers == IF IsCore THEN result.capacity_notes ELSE result.capacity_blockers
MaterialBlockers == IF IsCore THEN result.material_notes ELSE result.material_blockers
StatusFull == IF IsCore THEN result.status = "full" ELSE result.can_fulfill
RowLine(r) == IF IsCore THEN r.line_id.str ELSE r.line_id
RowDate(r) == IF IsCore THEN r.production_date.str ELSE r.production_date
NewPlanRows == SelectSeq(PlanRows, LAMBDA r : r.source = "new_plan")
NoCapableLineNote ==
    IF IsCore THEN [text |-> "No capable line for this SKU"]
    ELSE [text |-> "No capable line found"]

\* the allocation and the material check ran
Allocating == frame.branch \in {"full_new_plan", "partial"}
NewCapacity == IF Allocating THEN frame.new_capacity_cases ELSE 0

DueDate == call.due_date.str
RunIndexes == 1..Len(data.schedule)
\* the quantities of the runs I of the schedule, summed
RECURSIVE QtyUpTo(_, _)
QtyUpTo(n, I) ==
    IF n = 0 THEN 0
    ELSE (IF n \in I THEN data.schedule[n].planned_qty_cases ELSE 0) + QtyUpTo(n - 1, I)
QtyOver(I) == QtyUpTo(Len(data.schedule), I)
\* the runs of the requested product on or before the due date
ProductRuns ==
    {i \in RunIndexes : /\ data.schedule[i].product_id = call.product_id
                        /\ data.schedule[i].production_date <= DueDate}
PlannedBefore == QtyOver(ProductRuns)
HasCapabilityRow ==
    \E i \in 1..Len(data.capability) : data.capability[i].product_id = call.product_id
HasBomLine == \E i \in 1..Len(data.bom) : data.bom[i].product_id = call.product_id

\* C1: for a request of more than 0 cases, allocated_total + remaining is the
\* requested quantity, in every return branch of both functions
C1_AllocatedPlusRemaining ==
    Returned /\ Requested > 0 => Allocated + Remaining = Requested

\* a material-blocked partial answer: part allocated, part remaining
C1_Witness ==
    /\ Returned /\ Requested > 0
    /\ frame.branch = "partial"
    /\ MaterialBlockers # <<>>
    /\ Allocated > 0 /\ Remaining > 0

\* the dates of the scheduling window, the lines that can take new cases of
\* the requested product, and the headroom of a line on a day
WindowDateSet ==
    {data.schedule[i].production_date :
        i \in {k \in RunIndexes : data.schedule[k].production_date <= DueDate}}
CapableLineIds ==
    {data.capability[i].line_id :
        i \in {k \in 1..Len(data.capability) :
                  data.capability[k].product_id = call.product_id}}
LinePresent(l) == \E i \in 1..Len(data.lines) : data.lines[i].line_id = l
CapacityOf(l) ==
    data.lines[CHOOSE i \in 1..Len(data.lines) : data.lines[i].line_id = l].daily_capacity_cases
EligiblePairs ==
    {<<d, l>> : d \in WindowDateSet, l \in {k \in CapableLineIds : LinePresent(k)}}
ScheduledOn(d, l) ==
    QtyOver({i \in RunIndexes : /\ data.schedule[i].production_date = d
                                /\ data.schedule[i].line_id = l})
HeadroomOf(d, l) == Max(CapacityOf(l) - ScheduledOn(d, l), 0)
Before(p, q) == p[1] < q[1] \/ (p[1] = q[1] /\ p[2] < q[2])
RowPair(r) == <<RowDate(r), RowLine(r)>>
CasesOn(rows, p) ==
    LET on == SelectSeq(rows, LAMBDA r : RowPair(r) = p)
    IN  SeriesSum([i \in 1..Len(on) |-> on[i].allocated_cases])

\* C2: the new_plan rows are in ascending (date, line id) order, and a (date,
\* line) pair receives cases only if every eligible pair before it in that
\* order is filled to its headroom, whatever the row order of the capability table
C2_EarliestDateLowestLine ==
    Returned =>
        /\ \A i, j \in 1..Len(NewPlanRows) :
              i < j => Before(RowPair(NewPlanRows[i]), RowPair(NewPlanRows[j]))
        /\ \A i \in 1..Len(NewPlanRows) : \A p \in EligiblePairs :
              Before(p, RowPair(NewPlanRows[i])) /\ HeadroomOf(p[1], p[2]) > 0
                  => CasesOn(NewPlanRows, p) = HeadroomOf(p[1], p[2])

\* C3: a call with a non-positive requested quantity fails (raises an invalid
\* input error) and returns no result record
C3_NonPositiveRejected ==
    pc = "returned" /\ Requested <= 0 => raised # "none" /\ result = Null

\* the tables of d with their rows in any other order (the same rows, as often)
Reordered(t) ==
    {[i \in 1..Len(t) |-> t[f[i]]] :
        f \in {g \in [1..Len(t) -> 1..Len(t)] :
                  \A i, j \in 1..Len(t) : i # j => g[i] # g[j]}}
Reorderings(d) ==
    {Snapshot(s, l, c, b, v, p) :
        s \in Reordered(d.schedule), l \in Reordered(d.lines),
        c \in Reordered(d.capability), b \in Reordered(d.bom),
        v \in Reordered(d.inventory), p \in Reordered(d.products)}
Again(d) ==
    IF IsCore
    THEN simulate_request_core(call.product_id, Requested, call.due_date, d)
    ELSE simulate_request(call.product_id, Requested, call.due_date, d)

\* C4: a call on a snapshot holding the same sets of rows, with the same
\* request, returns the same result, plan rows in the same order included
C4_SameSnapshotSameResult ==
    Returned => \A d \in Reorderings(data) : Again(d).ret = result

\* the remaining quantity the same function returns on the same snapshot for
\* the same product and due date and q cases
RemainingFor(q) ==
    IF IsCore
    THEN simulate_request_core(call.product_id, q, call.due_date, data).ret.remaining_qty
    ELSE simulate_request(call.product_id, q, call.due_date, data).ret.remaining
MaterialBlockersFor(q) ==
    IF IsCore
    THEN simulate_request_core(call.product_id, q, call.due_date, data).ret.material_notes
    ELSE simulate_request(call.product_id, q, call.due_date, data).ret.material_blockers
\* C5: on a fixed snapshot, product and due date, a larger requested quantity
\* never returns a smaller remaining.  Stated for one case more; every
\* quantity 1..MaxRequest is requested in some state of every snapshot, so
\* the steps chain to any two quantities q1 < q2 <= MaxRequest + 1
C5_RemainingMonotone ==
    Returned /\ Requested > 0 => RemainingFor(Requested + 1) >= Remaining

\* a request answered full with new cases, where one case more runs short of
\* material and is left with more remaining
C5_Witness ==
    /\ Returned /\ Requested > 0
    /\ frame.branch = "full_new_plan"
    /\ MaterialBlockersFor(Requested + 1) # <<>>
    /\ RemainingFor(Requested + 1) > Remaining

\* requested minus already_planned minus new_capacity_cases, floored at 0
ShortfallOf == Max(Requested - PlannedBefore - NewCapacity, 0)

\* C6: capacity_shortfall is never negative; a full answer has no capacity
\* shortfall; no shortfall with a material blocker is not a full answer
C6_ShortfallAndFull ==
    Returned =>
        /\ Allocating => frame.capacity_shortfall >= 0 /\ frame.capacity_shortfall = ShortfallOf
        /\ StatusFull => ShortfallOf = 0
        /\ Allocating /\ frame.capacity_shortfall = 0 /\ frame.mat_blockers # <<>>
              => ~StatusFull

\* capacity covers the request and a material blocks it
C6_Witness ==
    /\ Returned /\ Allocating
    /\ frame.capacity_shortfall = 0 /\ frame.new_capacity_cases > 0
    /\ frame.mat_blockers # <<>>
    /\ ~StatusFull

AlreadyPlannedRowsOnly ==
    /\ PlanRows = frame.covering_rows
    /\ \A i \in 1..Len(PlanRows) : PlanRows[i].source = "already_planned"
    /\ SeriesSum([i \in 1..Len(PlanRows) |-> PlanRows[i].allocated_cases]) = PlannedBefore

\* C7: no capability row for the product and less planned than requested:
\* status no, allocated_total = already_planned, remaining = requested -
\* already_planned, the already-planned rows only, one 'no capable line' note
C7_NoCapableLine ==
    Returned /\ ~HasCapabilityRow /\ PlannedBefore < Requested =>
        /\ IsCore => result.status = "no"
        /\ IsApp => ~result.can_fulfill
        /\ Allocated = PlannedBefore
        /\ Remaining = Requested - PlannedBefore
        /\ AlreadyPlannedRowsOnly
        /\ CapacityBlockers = <<NoCapableLineNote>>

\* status no although some cases are already planned
C7_Witness ==
    /\ Returned /\ IsCore
    /\ ~HasCapabilityRow
    /\ 0 < PlannedBefore /\ PlannedBefore < Requested
    /\ result.status = "no"

\* C8: as much planned as requested: status full, allocated_total = requested,
\* remaining = 0, no blockers, the already-planned rows only; this branch wins
\* first, whatever the capability, BOM and stock
C8_AlreadyCovered ==
    Returned /\ PlannedBefore >= Requested =>
        /\ StatusFull
        /\ Allocated = Requested
        /\ Remaining = 0
        /\ CapacityBlockers = <<>> /\ MaterialBlockers = <<>>
        /\ AlreadyPlannedRowsOnly

\* covered by the plan, with no capable line
C8_Witness ==
    /\ Returned /\ Requested > 0
    /\ PlannedBefore >= Requested
    /\ ~HasCapabilityRow
    /\ StatusFull

\* C9: a material blocker drops the whole new quantity: allocated_total =
\* already_planned, remaining = requested - already_planned, no new_plan row,
\* status partial if already_planned > 0 and no otherwise
C9_MaterialBlocksAllNew ==
    Returned /\ MaterialBlockers # <<>> =>
        /\ Allocated = PlannedBefore
        /\ Remaining = Requested - PlannedBefore
        /\ NewPlanRows = <<>>
        /\ IsCore => result.status = (IF PlannedBefore > 0 THEN "partial" ELSE "no")
        /\ IsApp => ~result.can_fulfill

\* blocked by material although capacity alone covers the request
C9_Witness ==
    /\ Returned /\ IsCore /\ Allocating
    /\ MaterialBlockers # <<>>
    /\ frame.capacity_shortfall = 0
    /\ PlannedBefore > 0
    /\ result.status = "partial"

\* C10: when no new capacity is allocated (allocation skipped included), the
\* returned material blocker list is empty
C10_NoNewCapacityNoMaterialBlocker ==
    Returned /\ NewCapacity = 0 => MaterialBlockers = <<>>

(***************************************************************************)
(* The two call sites, side by side.                                       *)
(***************************************************************************)
\* what each function returns for the request of the current call
CoreAnswer == simulate_request_core(call.product_id, Requested, call.due_date, data).ret
AppAnswer == simulate_request(call.product_id, Requested, call.due_date, data).ret
\* a plan row of the dashboard's copy, its line and date written as the API writes them
AsCoreRow(r) ==
    [line_id |-> Str(r.line_id), production_date |-> Str(r.production_date),
     allocated_cases |-> r.allocated_cases, source |-> r.source]

\* C11: for every snapshot and request, app.simulate_request and
\* main.simulate_request_core return the same allocated quantity, the same
\* remaining, the same plan rows in the same order, capacity blocker lists of
\* one length and material blocker lists of one length, and can_fulfill is
\* true exactly when status is full
C11_CallSitesAgree ==
    Returned =>
        /\ AppAnswer.allocated_total = CoreAnswer.covered_qty_on_requested_date
        /\ AppAnswer.remaining = CoreAnswer.remaining_qty
        /\ [i \in 1..Len(AppAnswer.plan_rows) |-> AsCoreRow(AppAnswer.plan_rows[i])]
              = CoreAnswer.existing_orders_used
        /\ Len(AppAnswer.capacity_blockers) = Len(CoreAnswer.capacity_notes)
        /\ Len(AppAnswer.material_blockers) = Len(CoreAnswer.material_notes)
        /\ AppAnswer.can_fulfill <=> CoreAnswer.status = "full"

\* C12: a call leaves the snapshot unchanged: after it the six tables hold the
\* rows and columns they held before it, in every return branch, so the next
\* call on the snapshot sees the same input
C12_SnapshotUnchanged == [][data' = data]_vars

\* a call that ran every column assignment (the schedule's date columns and
\* the BOM's needed_qty) has returned
C12_Witness ==
    /\ Returned /\ Allocating
    /\ NewCapacity > 0 /\ HasBomLine
    /\ Len(data.schedule) = MaxRuns

\* the new_plan rows the allocation made, returned or dropped
ExtraPlanRows == IF Allocating THEN frame.extra_plan_rows ELSE <<>>
IsFirm(i) == data.schedule[i].is_firm
RunsOn(d, l) ==
    {i \in RunIndexes : /\ data.schedule[i].production_date = d
                        /\ data.schedule[i].line_id = l}

\* C13: every new_plan row has 0 < cases <= daily capacity of its line minus
\* the quantities of all runs on that line and date (every product, firm or
\* not), and a (line, date) pair has at most one new_plan row
C13_NewRowsWithinHeadroom ==
    Returned =>
        \A rows \in {NewPlanRows, ExtraPlanRows} :
            /\ \A i \in 1..Len(rows) :
                  /\ rows[i].source = "new_plan"
                  /\ LinePresent(RowLine(rows[i]))
                  /\ 0 < rows[i].allocated_cases
                  /\ rows[i].allocated_cases
                        <= CapacityOf(RowLine(rows[i]))
                             - QtyOver(RunsOn(RowDate(rows[i]), RowLine(rows[i])))
            /\ \A i, j \in 1..Len(rows) :
                  RowPair(rows[i]) = RowPair(rows[j]) => i = j

\* a returned new_plan row that takes all that a non-firm run of another
\* product leaves of its line and day
C13_Witness ==
    /\ Returned
    /\ \E i \in 1..Len(NewPlanRows) :
          LET r == NewPlanRows[i]
              on == RunsOn(RowDate(r), RowLine(r))
          IN  /\ \E k \in on : ~IsFirm(k) /\ data.schedule[k].product_id # call.product_id
              /\ r.allocated_cases = CapacityOf(RowLine(r)) - QtyOver(on)

AlreadyPlannedRows == SelectSeq(PlanRows, LAMBDA r : r.source = "already_planned")
\* the row a run of the schedule gives: (line, date, cases)
RunTriple(i) ==
    <<data.schedule[i].line_id, data.schedule[i].production_date,
      data.schedule[i].planned_qty_cases>>
RowTriple(r) == <<RowLine(r), RowDate(r), r.allocated_cases>>
TimesIn(rows, t) == Cardinality({i \in 1..Len(rows) : RowTriple(rows[i]) = t})

\* C14: already_planned is the sum of the quantities of exactly the runs of
\* the requested product dated on or before the due date; the already_planned
\* plan rows are one row per such run, in ascending (date, line id) order,
\* and their cases sum to already_planned
C14_AlreadyPlannedRows ==
    Returned =>
        LET rows == AlreadyPlannedRows
            runs == ProductRuns
            planned == PlannedBefore
        IN  /\ frame.already_planned_cases = planned
            /\ Len(rows) = Cardinality(runs)
            /\ \A k \in runs :
                  TimesIn(rows, RunTriple(k))
                     = Cardinality({j \in runs : RunTriple(j) = RunTriple(k)})
            /\ \A i, j \in 1..Len(rows) :
                  i < j => ~Before(RowPair(rows[j]), RowPair(rows[i]))
            /\ SeriesSum([i \in 1..Len(rows) |-> rows[i].allocated_cases]) = planned
            /\ \A i \in 1..Len(PlanRows) :
                  PlanRows[i].source = "already_planned" => i <= Len(rows)

\* two runs of the product in the window, stored latest first and returned
\* earliest first, beside a request they do not cover
C14_Witness ==
    /\ Returned /\ Requested > frame.already_planned_cases
    /\ Len(AlreadyPlannedRows) = MaxRuns
    /\ data.schedule[1].production_date > data.schedule[MaxRuns].production_date
    /\ RowDate(AlreadyPlannedRows[1]) < RowDate(AlreadyPlannedRows[MaxRuns])

\* the last return of both functions ("partial only")
PartialBranch == frame.branch = "partial"
\* requested - (already_planned + new_capacity_cases), before the material zero-out
ShortfallFigure == Requested - (PlannedBefore + NewCapacity)
ShortfallNote(n) == [text |-> "Short cases before", cases |-> n, before |-> DueDate]

\* C15: in the partial/no branch capacity_blockers holds exactly one shortfall
\* note when capacity_shortfall > 0 and nothing otherwise, material blockers
\* or not; the note's figure is requested - (already_planned +
\* new_capacity_cases): remaining when no material blocks, remaining minus
\* new_capacity_cases when one does
C15_ShortfallNote ==
    Returned /\ PartialBranch =>
        /\ frame.capacity_shortfall > 0 <=> ShortfallFigure > 0
        /\ ShortfallFigure > 0 =>
              /\ CapacityBlockers = <<ShortfallNote(ShortfallFigure)>>
              /\ MaterialBlockers = <<>> => ShortfallFigure = Remaining
              /\ MaterialBlockers # <<>> => ShortfallFigure = Remaining - NewCapacity
        /\ ShortfallFigure <= 0 => CapacityBlockers = <<>>

\* short of capacity and of material at once: the note's figure is smaller
\* than remaining
C15_Witness ==
    /\ Returned /\ PartialBranch
    /\ MaterialBlockers # <<>>
    /\ NewCapacity > 0
    /\ CapacityBlockers = <<ShortfallNote(ShortfallFigure)>>
    /\ ShortfallFigure < Remaining

RunsOfProductOn(d) ==
    {i \in RunIndexes : /\ data.schedule[i].product_id = call.product_id
                        /\ data.schedule[i].production_date = d}
RunsOfProductUpTo(d) ==
    {i \in RunIndexes : /\ data.schedule[i].product_id = call.product_id
                        /\ data.schedule[i].production_date < d}

\* C16: the window includes the due date and ends with it: runs dated on the
\* due date count toward already_planned and toward headroom, no plan row of
\* either source is dated after the due date, and new_plan rows fall only on
\* dates of runs scheduled on or before the due date (none scheduled: no new
\* capacity)
C16_WindowInclusive ==
    Returned =>
        /\ frame.already_planned_cases
              = QtyOver(RunsOfProductUpTo(DueDate)) + QtyOver(RunsOfProductOn(DueDate))
        /\ \A rows \in {PlanRows, ExtraPlanRows} : \A i \in 1..Len(rows) :
              /\ RowDate(rows[i]) <= DueDate
              /\ rows[i].source = "new_plan" =>
                    /\ RowDate(rows[i]) \in WindowDateSet
                    /\ RowDate(rows[i]) = DueDate =>
                          rows[i].allocated_cases
                             <= CapacityOf(RowLine(rows[i]))
                                  - QtyOver(RunsOn(DueDate, RowLine(rows[i])))
        /\ WindowDateSet = {} => NewCapacity = 0

\* the only runs are dated on the due date: one of the product, counted as
\* already planned, and the new cases go on that day, next to it
C16_Witness ==
    /\ Returned /\ Allocating
    /\ \A i \in RunIndexes : data.schedule[i].production_date = DueDate
    /\ frame.already_planned_cases > 0
    /\ \E i \in 1..Len(NewPlanRows) :
          /\ RowDate(NewPlanRows[i]) = DueDate
          /\ RunsOn(DueDate, RowLine(NewPlanRows[i])) # {}

\* the material check stated on the tables: the BOM lines of the product, the
\* inventory rows of a material, and what n new cases need of each line
BomLines == {i \in 1..Len(data.bom) : data.bom[i].product_id = call.product_id}
StockRows(m) ==
    {j \in 1..Len(data.inventory) : data.inventory[j].material_id = m}
StockOf(j) ==
    IF data.inventory[j].on_hand_qty = Null THEN 0 ELSE data.inventory[j].on_hand_qty[1]
NeedOf(i, n) == data.bom[i].qty_per_case * n
\* a BOM line against an inventory row of its material that holds less than needed
ShortOfStock(n) ==
    {<<i, j>> \in BomLines \X (1..Len(data.inventory)) :
        j \in StockRows(data.bom[i].material_id) /\ NeedOf(i, n) > StockOf(j)}
\* a BOM line whose material has no inventory row, of which something is needed
ShortOfMissing(n) ==
    {i \in BomLines : StockRows(data.bom[i].material_id) = {} /\ NeedOf(i, n) > 0}
MaterialCovers(n) == HasBomLine /\ ShortOfStock(n) = {} /\ ShortOfMissing(n) = {}
CasesOf(rows) == SeriesSum([i \in 1..Len(rows) |-> rows[i].allocated_cases])

\* C17: less planned than requested, a capable line, no capacity shortfall and
\* no material blocker: status full, allocated_total = requested, remaining =
\* 0, no blockers, and the plan rows are all already-planned rows followed by
\* all new-plan rows
C17_FullWithNewPlan ==
    Returned /\ PlannedBefore < Requested /\ HasCapabilityRow
             /\ ShortfallOf = 0 /\ MaterialCovers(NewCapacity) =>
        /\ StatusFull
        /\ Allocated = Requested
        /\ Remaining = 0
        /\ CapacityBlockers = <<>> /\ MaterialBlockers = <<>>
        /\ PlanRows = frame.covering_rows \o frame.extra_plan_rows
        /\ \A i \in 1..Len(PlanRows) :
              PlanRows[i].source =
                 (IF i <= Cardinality(ProductRuns) THEN "already_planned" ELSE "new_plan")
        /\ CasesOf(AlreadyPlannedRows) = PlannedBefore
        /\ CasesOf(NewPlanRows) = Requested - PlannedBefore

\* a full answer made of a planned run and new cases on two lines
C17_Witness ==
    /\ Returned /\ StatusFull
    /\ 0 < PlannedBefore /\ PlannedBefore < Requested
    /\ Len(NewPlanRows) > 1
    /\ Len(AlreadyPlannedRows) > 0

NoBomNote ==
    IF IsCore THEN [text |-> "No BOM defined for this SKU"]
    ELSE [text |-> "No BOM for this SKU."]

\* C18: new capacity found for a product with no BOM line: exactly one 'no
\* BOM defined' note blocks it, the new allocation is dropped and the answer
\* is not full
C18_NoBomBlocks ==
    Returned /\ NewCapacity > 0 /\ ~HasBomLine =>
        /\ MaterialBlockers = <<NoBomNote>>
        /\ ~StatusFull
        /\ Allocated = PlannedBefore
        /\ Remaining = Requested - PlannedBefore
        /\ NewPlanRows = <<>>

\* capacity covers the whole request, the BOM table holds lines of another
\* product only
C18_Witness ==
    /\ Returned /\ ~HasBomLine /\ data.bom # <<>>
    /\ NewCapacity > 0 /\ NewCapacity = Requested - PlannedBefore
    /\ MaterialBlockers = <<NoBomNote>>
    /\ ~StatusFull

\* the shortage notes of the call, and what each says: (material, shortage)
MatNotes == IF Allocating THEN frame.mat_blockers ELSE <<>>
NoteValue(k) == <<MatNotes[k].material, MatNotes[k].shortage>>
StockShortValue(p) ==
    <<data.bom[p[1]].material_id, NeedOf(p[1], NewCapacity) - StockOf(p[2])>>
MissingShortValue(i) == <<data.bom[i].material_id, NeedOf(i, NewCapacity)>>
\* on-hand of a material with at most one inventory row: missing or null is 0
OneStockRowEach ==
    \A m \in MaterialIds : Cardinality(StockRows(m)) <= 1
OnHandOf(m) ==
    IF StockRows(m) = {} THEN 0 ELSE StockOf(CHOOSE j \in StockRows(m) : TRUE)
NoStockValue(m) == \A j \in StockRows(m) : data.inventory[j].on_hand_qty = Null

\* C19: a BOM material with no inventory row, or a null on-hand value, counts
\* as zero on hand and the call returns: it gives a shortage note exactly
\* when qty_per_case x new_capacity_cases > 0.  One shortage note is written
\* per BOM line whose need strictly exceeds on-hand (per inventory row of its
\* material, when the material has several); need = on-hand is no shortage
C19_MissingStockIsZero ==
    /\ pc = "returned" /\ Parses(call.due_date) => raised = "none"
    /\ Returned /\ NewCapacity > 0 /\ HasBomLine =>
          LET stock == ShortOfStock(NewCapacity)
              missing == ShortOfMissing(NewCapacity)
              notes == 1..Len(MatNotes)
          IN  /\ Len(MatNotes) = Cardinality(stock) + Cardinality(missing)
              /\ \A v \in {NoteValue(k) : k \in notes} :
                    Cardinality({k \in notes : NoteValue(k) = v})
                       = Cardinality({p \in stock : StockShortValue(p) = v})
                         + Cardinality({i \in missing : MissingShortValue(i) = v})
              /\ OneStockRowEach =>
                    Len(MatNotes) =
                       Cardinality({i \in BomLines :
                           NeedOf(i, NewCapacity) > OnHandOf(data.bom[i].material_id)})
              /\ \A i \in BomLines :
                    NoStockValue(data.bom[i].material_id) =>
                       (NeedOf(i, NewCapacity) > 0
                          <=> \E k \in notes : NoteValue(k) = MissingShortValue(i))

\* two BOM lines: of one material exactly the needed quantity is on hand (no
\* note), the other has no inventory row (one note, short by all it needs)
C19_Witness ==
    /\ Returned /\ NewCapacity > 0
    /\ Len(MatNotes) = 1
    /\ \E i \in BomLines :
          /\ StockRows(data.bom[i].material_id) = {}
          /\ NoteValue(1) = MissingShortValue(i)
    /\ \E i \in BomLines : \E j \in StockRows(data.bom[i].material_id) :
          NeedOf(i, NewCapacity) > 0 /\ NeedOf(i, NewCapacity) = StockOf(j)

\* the headroom of the (date, line) pairs P, summed
RECURSIVE HeadroomOver(_, _)
HeadroomOver(pairs, P) ==
    IF pairs = <<>> THEN 0
    ELSE (IF Head(pairs) \in P THEN HeadroomOf(Head(pairs)[1], Head(pairs)[2]) ELSE 0)
            + HeadroomOver(Tail(pairs), P)
\* H: the headroom of every day of the window on every capable line present
TotalHeadroom ==
    LET dates == SortedSeq(Dates)
        lines == SortedSeq(LineIds)
        pairs == [k \in 1..(Len(dates) * Len(lines)) |->
                     <<dates[((k - 1) \div Len(lines)) + 1],
                       lines[((k - 1) % Len(lines)) + 1]>>]
    IN  HeadroomOver(pairs, EligiblePairs)

\* C20: the allocator fills as much as capacity permits: new_capacity_cases =
\* min(requested - already_planned, H), and the cases of the new_plan rows it
\* makes sum to new_capacity_cases
C20_GreedyFillsCapacity ==
    Returned /\ Allocating =>
        /\ frame.new_capacity_cases = Min(Requested - PlannedBefore, TotalHeadroom)
        /\ CasesOf(frame.extra_plan_rows) = frame.new_capacity_cases
        /\ MaterialBlockers = <<>> => CasesOf(NewPlanRows) = frame.new_capacity_cases

\* all the headroom of two days is taken and the request is still short
C20_Witness ==
    /\ Returned /\ Allocating
    /\ frame.new_capacity_cases = TotalHeadroom
    /\ TotalHeadroom < Requested - PlannedBefore
    /\ \E i, j \in 1..Len(ExtraPlanRows) :
          RowDate(ExtraPlanRows[i]) # RowDate(ExtraPlanRows[j])

\* a call with a positive quantity and a date has returned
ValidCallReturned == Returned /\ Requested > 0

\* C21: for a valid input the status agrees with the quantities: full exactly
\* when remaining = 0, partial only with 0 < allocated_total < requested, and
\* 0 <= allocated_total <= requested, 0 <= remaining <= requested in every
\* branch
C21_StatusMatchesQuantities ==
    ValidCallReturned =>
        /\ StatusFull <=> Remaining = 0
        /\ IsCore => result.status \in {"full", "partial", "no"}
        /\ IsCore /\ result.status = "partial" =>
              0 < Allocated /\ Allocated < Requested
        /\ 0 <= Allocated /\ Allocated <= Requested
        /\ 0 <= Remaining /\ Remaining <= Requested

\* partial for want of capacity alone: new cases allocated, some remaining
C21_Witness ==
    /\ ValidCallReturned /\ IsCore
    /\ result.status = "partial"
    /\ MaterialBlockers = <<>> /\ CapacityBlockers # <<>>
    /\ NewPlanRows # <<>>
    /\ 0 < Allocated /\ Allocated < Requested

\* C22: the returned plan rows account for the allocated quantity: their
\* cases sum to allocated_total when less is planned than requested (no
\* capable line, full with new plan, partial or no), and to at least
\* allocated_total when the plan covers the request
C22_PlanRowsSumToAllocated ==
    Returned =>
        LET planned == PlannedBefore
            cases == CasesOf(PlanRows)
        IN  /\ planned < Requested => cases = Allocated
            /\ planned >= Requested => cases >= Allocated

\* new rows were made and a material blocker dropped them: the rows returned
\* are the planned runs, and sum to what is allocated
C22_Witness ==
    /\ Returned /\ Allocating
    /\ MaterialBlockers # <<>>
    /\ frame.extra_plan_rows # <<>>
    /\ PlanRows # <<>>
    /\ CasesOf(PlanRows) = Allocated

====
